---- MODULE Spec2Model ----
(***************************************************************************)
(* Construction of the CNN, ResNet, ResidualBlock and                      *)
(* ResidualBottleneckBlock models of hw2/cnn.py: the layer lists the       *)
(* constructors assemble, the recorded output dimensions, the asserts and  *)
(* exceptions they raise, and the feature-count probe with its save and    *)
(* restore of the global random-number-generator state.                    *)
(***************************************************************************)
EXTENDS Integers, Sequences, FiniteSets, TLC

\* ------------------------------------------------------------------ bounds
MaxN == 3          \* longest channels / kernel_sizes list drawn as an input
MaxP == 4          \* largest pool_every drawn as an input
MaxDim == 2        \* input height and width are drawn from 1..MaxDim
MaxKernel == 3     \* kernel sizes of a block are drawn from 1..MaxKernel
RngMod == 5        \* the generator state is a draw counter modulo RngMod

\* --------------------------------------------------------- program tables
POOLINGS == {"avg", "max"}
ACTIVATIONS == {"relu", "lrelu"}

\* ----------------------------------------------------------- input sets
SeqsUpTo(S, n) == UNION {[1..k -> S] : k \in 0..n}
ChanVals == {1, 2}
ConvKernelInputs == {1, 3}
StrideInputs == {1, 2}
PaddingInputs == {0, 1}
PoolKernelInputs == {1, 2}
ChannelLists == SeqsUpTo(ChanVals, MaxN)
KernelLists == SeqsUpTo(1..MaxKernel, MaxN)
ActivationInputs == {"relu", "swish"}
PoolingInputs == {"max", "min"}
DropoutInputs == {0, 5}        \* dropout probability in tenths
HiddenInputs == {<<>>, <<1>>}

\* -------------------------------------------------- Python list semantics
\* s[a:b] with Python's treatment of negative and out-of-range indices
\* (indices are 0-based, b exclusive).
PyIndex(n, a) == IF a < 0 THEN (IF a + n < 0 THEN 0 ELSE a + n)
                 ELSE (IF a > n THEN n ELSE a)
PySlice(s, a, b) ==
    LET lo == PyIndex(Len(s), a)
        hi == PyIndex(Len(s), b)
    IN  IF hi <= lo THEN <<>> ELSE SubSeq(s, lo + 1, hi)
\* s[a] for a list s (0-based, negative a counts from the end)
PyAt(s, a) == IF a < 0 THEN s[Len(s) + a + 1] ELSE s[a + 1]
\* [v] * n : the empty list when n <= 0
PyRepeat(v, n) == IF n <= 0 THEN <<>> ELSE [k \in 1..n |-> v]
\* a ** n for n >= 0
RECURSIVE Pow(_, _)
Pow(a, n) == IF n = 0 THEN 1 ELSE a * Pow(a, n - 1)

\* ------------------------------------------------------------ layer values
Conv2d(cin, cout, kernel, stride, padding, bias) ==
    [kind |-> "conv", cin |-> cin, cout |-> cout, kernel_size |-> kernel,
     stride |-> stride, padding |-> padding, bias |-> bias]
Activation(type) == [kind |-> "act", type |-> type]
Pool(type, kernel) == [kind |-> "pool", type |-> type, kernel_size |-> kernel]
Dropout2d(p) == [kind |-> "dropout", p |-> p]
BatchNorm2d(features) == [kind |-> "batchnorm", features |-> features]
Identity == [kind |-> "identity"]

VARIABLES
    cls,          \* the class whose constructor is running
    self,         \* the constructor arguments stored on the CNN / ResNet
    pc,           \* position in the constructor
    err,          \* the exception that ended the construction, or "none"
    layers,       \* the `layers` list of _make_feature_extractor
    conv_out_h,   \* self.conv_out_h
    conv_out_w,   \* self.conv_out_w
    pool_count,   \* CNN: pool_count; ResNet: the group index i
    blk,          \* the residual block under construction (or built)
    rng,          \* the global random-number-generator state
    rng_state,    \* the local rng_state of _n_features
    x,            \* shape of the tensor flowing through the probe
    n_features    \* the value _n_features returned

vars == <<cls, self, pc, err, layers, conv_out_h, conv_out_w, pool_count,
          blk, rng, rng_state, x, n_features>>

NoSelf == [none |-> TRUE]
NoBlk == [cls |-> "none"]
NoX == [c |-> 0, h |-> 0, w |-> 0, i |-> 0]

\* Arguments of CNN.__init__ (ResNet adds batchnorm, dropout, bottleneck).
\* `net` is one of the argument records drawn as an input.
NetArgs(net, ks, ss, ps, bn, dr, bt) ==
    \E c \in ChanVals, h \in 1..MaxDim, w \in 1..MaxDim,
       ch \in ChannelLists, p \in 1..MaxP, hd \in HiddenInputs,
       k \in ks, s \in ss, pd \in ps,
       at \in ActivationInputs, pt \in PoolingInputs,
       pk \in PoolKernelInputs,
       b \in bn, d \in dr, t \in bt :
        net = [in_size |-> <<c, h, w>>, channels |-> ch, pool_every |-> p,
               hidden_dims |-> hd,
               conv_params |-> [kernel_size |-> k, stride |-> s,
                                padding |-> pd],
               activation_type |-> at, pooling_type |-> pt,
               pooling_params |-> [kernel_size |-> pk],
               batchnorm |-> b, dropout |-> d, bottleneck |-> t]

\* Arguments of ResidualBlock.__init__ / ResidualBottleneckBlock.__init__,
\* as the frame of the block constructor; ret is where the caller resumes.
BlockFrame(c, in_channels, channels, kernel_sizes, bn, dr, at, ret) ==
    [cls |-> c,
     in_out_channels |-> IF c = "ResidualBottleneckBlock" THEN in_channels ELSE 0,
     inner_channels |-> IF c = "ResidualBottleneckBlock" THEN channels ELSE <<>>,
     inner_kernel_sizes |-> IF c = "ResidualBottleneckBlock" THEN kernel_sizes ELSE <<>>,
     in_channels |-> IF c = "ResidualBlock" THEN in_channels ELSE 0,
     channels |-> IF c = "ResidualBlock" THEN channels ELSE <<>>,
     kernel_sizes |-> IF c = "ResidualBlock" THEN kernel_sizes ELSE <<>>,
     batchnorm |-> bn, dropout |-> dr, activation_type |-> at,
     i |-> 0, main_layers |-> <<>>, short_layers |-> <<>>, ret |-> ret]

\* `b` is one of the frames drawn as the arguments of a block of class c.
BlockArgs(b, c) ==
    \E ic \in ChanVals, ch \in ChannelLists, ks \in KernelLists,
       bn \in BOOLEAN, dr \in DropoutInputs, at \in ActivationInputs :
        b = BlockFrame(c, ic, ch, ks, bn, dr, at, "done")

BlockStart(c) == IF c = "ResidualBottleneckBlock" THEN "rbb_init" ELSE "rb_init"

\* What every constructor starts from.
Fresh ==
    /\ err = "none"
    /\ layers = <<>>
    /\ conv_out_h = 0
    /\ conv_out_w = 0
    /\ pool_count = 0
    /\ rng = 0
    /\ rng_state = 0
    /\ x = NoX
    /\ n_features = 0

\* A CNN is constructed.
InitCNN ==
    /\ cls = "CNN"
    /\ NetArgs(self, ConvKernelInputs, StrideInputs, PaddingInputs,
               {FALSE}, {0}, {FALSE})
    /\ blk = NoBlk
    /\ pc = "init"
    /\ Fresh

\* A ResNet is constructed (its conv_params play no part).
InitResNet ==
    /\ cls = "ResNet"
    /\ NetArgs(self, {3}, {1}, {1}, BOOLEAN, DropoutInputs, BOOLEAN)
    /\ blk = NoBlk
    /\ pc = "init"
    /\ Fresh

\* A ResidualBlock or a ResidualBottleneckBlock is constructed on its own.
InitBlock ==
    /\ cls \in {"ResidualBlock", "ResidualBottleneckBlock"}
    /\ self = NoSelf
    /\ BlockArgs(blk, cls)
    /\ pc = BlockStart(cls)
    /\ Fresh

Init == InitCNN \/ InitResNet \/ InitBlock

\* An exception leaves the constructor: nothing else of the state changes.
Raise(e) ==
    /\ pc' = "error"
    /\ err' = e

\* ------------------------------------------------------------ CNN.__init__
\* Lines 51-66: the assert on channels and hidden_dims, the attribute
\* assignments, the check of the activation and pooling kinds.
CNN_Init ==
    /\ pc = "init"
    /\ IF self.channels = <<>> \/ self.hidden_dims = <<>>
       THEN Raise("AssertionError")
       ELSE IF self.activation_type \notin ACTIVATIONS
               \/ self.pooling_type \notin POOLINGS
            THEN Raise("ValueError")
            ELSE pc' = "make_fe" /\ err' = err
    /\ UNCHANGED <<cls, self, layers, conv_out_h, conv_out_w, pool_count,
                   blk, rng, rng_state, x, n_features>>

\* The generator state after one layer with learned parameters has been
\* instantiated (its weights are drawn from the global generator), and after
\* n random draws of a forward pass.
ParamInit(r) == (r + 1) % RngMod
Draw(r, n) == (r + n) % RngMod

\* ------------------------------------------- CNN._make_feature_extractor
\* ConvOutDim with the "+ 1" of the usual output-size formula.
ConvOutDim_PlusOne(dim, conv_params) ==
    (dim - conv_params.kernel_size + 2 * conv_params.padding)
        \div conv_params.stride + 1

\* Lines 92-93: the dimension recorded after a convolution.
ConvOutDim(dim, conv_params) ==
    (dim - conv_params.kernel_size + 2 * conv_params.padding)
        \div conv_params.stride

\* Lines 97-98: the dimension recorded after a pooling layer.
PoolOutDim(dim, pooling_params) == dim \div pooling_params.kernel_size

\* Line 89: zip([in_channels] + channels[:-1], channels[:]), j-th pair.
ZipIn(in_channels, channels) ==
    <<in_channels>> \o PySlice(channels, 0, -1)

\* PoolDue with the test made before the counter is advanced.
PoolDue_Early(count, pool_every) == (count - 1) % pool_every = 0

\* Line 95: the pooling test.
PoolDue(count, pool_every) == count % pool_every = 0

\* Lines 72-88.
CNN_FE_Begin ==
    /\ pc = "make_fe"
    /\ cls = "CNN"
    /\ layers' = <<>>
    /\ conv_out_w' = self.in_size[3]
    /\ conv_out_h' = self.in_size[2]
    /\ pool_count' = 0
    /\ pc' = "cnn_loop"
    /\ UNCHANGED <<cls, self, err, blk, rng, rng_state, x, n_features>>

\* Lines 89-94: one iteration of the loop up to the pooling test.
CNN_Conv ==
    /\ pc = "cnn_loop"
    /\ pool_count < Len(self.channels)
    /\ LET cin == ZipIn(self.in_size[1], self.channels)[pool_count + 1]
           cout == self.channels[pool_count + 1]
       IN  layers' = layers \o
               <<Conv2d(cin, cout, self.conv_params.kernel_size,
                        self.conv_params.stride, self.conv_params.padding,
                        TRUE),
                 Activation(self.activation_type)>>
    /\ rng' = ParamInit(rng)
    /\ conv_out_w' = ConvOutDim(conv_out_w, self.conv_params)
    /\ conv_out_h' = ConvOutDim(conv_out_h, self.conv_params)
    /\ pool_count' = pool_count + 1
    /\ pc' = "cnn_pool"
    /\ UNCHANGED <<cls, self, err, blk, rng_state, x, n_features>>

\* Lines 95-98: the pooling layer after every pool_every convolutions.
CNN_Pool ==
    /\ pc = "cnn_pool"
    /\ IF PoolDue(pool_count, self.pool_every)
       THEN /\ layers' = Append(layers, Pool(self.pooling_type,
                                             self.pooling_params.kernel_size))
            /\ conv_out_w' = PoolOutDim(conv_out_w, self.pooling_params)
            /\ conv_out_h' = PoolOutDim(conv_out_h, self.pooling_params)
       ELSE UNCHANGED <<layers, conv_out_w, conv_out_h>>
    /\ pc' = "cnn_loop"
    /\ UNCHANGED <<cls, self, err, pool_count, blk, rng, rng_state, x,
                   n_features>>

\* Lines 103-104 and 68-69: the loop is over, the Sequential is returned.
CNN_FE_Return ==
    /\ pc = "cnn_loop"
    /\ pool_count = Len(self.channels)
    /\ pc' = "make_mlp"
    /\ UNCHANGED <<cls, self, err, layers, conv_out_h, conv_out_w, pool_count,
                   blk, rng, rng_state, x, n_features>>

\* --------------------------------------------------- ResidualBlock.__init__
\* BottleneckChannels without the projection to the first inner channel.
BottleneckChannels_NoProjection(in_out_channels, inner_channels) ==
    inner_channels \o <<in_out_channels>>

\* Lines 273-286: the asserts of the bottleneck block and the arguments it
\* hands to ResidualBlock.__init__.
BottleneckChannels(in_out_channels, inner_channels) ==
    <<inner_channels[1]>> \o inner_channels \o <<in_out_channels>>
BottleneckKernelSizes(inner_kernel_sizes) ==
    <<1>> \o inner_kernel_sizes \o <<1>>

RBB_Init ==
    /\ pc = "rbb_init"
    /\ IF \/ ~(Len(blk.inner_channels) > 0)
          \/ ~(Len(blk.inner_channels) = Len(blk.inner_kernel_sizes))
       THEN Raise("AssertionError") /\ blk' = blk
       ELSE /\ blk' = [blk EXCEPT
                 !.in_channels = blk.in_out_channels,
                 !.channels = BottleneckChannels(blk.in_out_channels,
                                                 blk.inner_channels),
                 !.kernel_sizes = BottleneckKernelSizes(blk.inner_kernel_sizes)]
            /\ pc' = "rb_init"
            /\ err' = err
    /\ UNCHANGED <<cls, self, layers, conv_out_h, conv_out_w, pool_count,
                   rng, rng_state, x, n_features>>

\* Lines 188-193: the exception ResidualBlock.__init__ raises on its
\* arguments, "none" when it raises none.
RBInitError(channels, kernel_sizes, activation_type) ==
    IF \/ channels = <<>> \/ kernel_sizes = <<>>
       \/ Len(channels) # Len(kernel_sizes)
       \/ \E k \in 1..Len(kernel_sizes) : kernel_sizes[k] % 2 # 1
    THEN "AssertionError"
    ELSE IF activation_type \notin ACTIVATIONS
         THEN "ValueError"
         ELSE "none"

\* Lines 187-195 and 211-213: the asserts and the activation check of
\* ResidualBlock, then the empty main path.
RB_Init ==
    /\ pc = "rb_init"
    /\ LET e == RBInitError(blk.channels, blk.kernel_sizes,
                            blk.activation_type)
       IN  IF e # "none"
           THEN Raise(e) /\ blk' = blk
           ELSE /\ blk' = [blk EXCEPT !.i = 0, !.main_layers = <<>>]
                /\ pc' = "rb_main"
                /\ err' = err
    /\ UNCHANGED <<cls, self, layers, conv_out_h, conv_out_w, pool_count,
                   rng, rng_state, x, n_features>>

\* MainLayersAt with the normalization placed before the dropout.
MainLayersAt_NormFirst(b, i) ==
    LET all_channels == <<b.in_channels>> \o b.channels
        cin == all_channels[i + 1]
        cout == all_channels[i + 2]
        conv == <<Conv2d(cin, cout, b.kernel_sizes[i + 1], 1, "same", TRUE)>>
    IN  IF i = Len(b.kernel_sizes) - 1
        THEN conv
        ELSE conv
             \o (IF b.batchnorm THEN <<BatchNorm2d(all_channels[i + 2])>>
                 ELSE <<>>)
             \o (IF b.dropout > 0 THEN <<Dropout2d(b.dropout)>> ELSE <<>>)
             \o <<Activation(b.activation_type)>>

\* Lines 215-224: the layers one iteration i (0-based) of the loop adds.
MainLayersAt(b, i) ==
    LET all_channels == <<b.in_channels>> \o b.channels
        cin == all_channels[i + 1]
        cout == all_channels[i + 2]
        conv == <<Conv2d(cin, cout, b.kernel_sizes[i + 1], 1, "same", TRUE)>>
    IN  IF i = Len(b.kernel_sizes) - 1
        THEN conv
        ELSE conv
             \o (IF b.dropout > 0 THEN <<Dropout2d(b.dropout)>> ELSE <<>>)
             \o (IF b.batchnorm THEN <<BatchNorm2d(all_channels[i + 2])>>
                 ELSE <<>>)
             \o <<Activation(b.activation_type)>>

\* Lines 214-226: one iteration of the main-path loop.
RB_MainStep ==
    /\ pc = "rb_main"
    /\ blk.i < Len(blk.kernel_sizes)
    /\ blk' = [blk EXCEPT !.main_layers = @ \o MainLayersAt(blk, blk.i),
                          !.i = @ + 1]
    /\ rng' = ParamInit(rng)
    /\ pc' = IF blk.i = Len(blk.kernel_sizes) - 1 THEN "rb_short" ELSE "rb_main"
    /\ UNCHANGED <<cls, self, err, layers, conv_out_h, conv_out_w, pool_count,
                   rng_state, x, n_features>>

\* ShortLayers that projects with a 1x1 convolution in every case.
ShortLayers_AlwaysConv(in_channels, channels) ==
    <<Conv2d(in_channels, channels[Len(channels)], 1, 1, "same", FALSE)>>

\* Line 229: the shortcut path.
ShortLayers(in_channels, channels) ==
    IF in_channels = channels[Len(channels)]
    THEN <<Identity>>
    ELSE <<Conv2d(in_channels, channels[Len(channels)], 1, 1, "same", FALSE)>>

\* Lines 228-231.
RB_Shortcut ==
    /\ pc = "rb_short"
    /\ blk' = [blk EXCEPT
                 !.short_layers = ShortLayers(blk.in_channels, blk.channels)]
    /\ rng' = IF blk.in_channels = blk.channels[Len(blk.channels)]
              THEN rng ELSE ParamInit(rng)
    /\ pc' = "rb_ret"
    /\ UNCHANGED <<cls, self, err, layers, conv_out_h, conv_out_w, pool_count,
                   rng_state, x, n_features>>

\* The block as a layer of a feature extractor.
BlockLayer(b) ==
    [kind |-> "block", cls |-> b.cls, in_channels |-> b.in_channels,
     channels |-> b.channels, kernel_sizes |-> b.kernel_sizes,
     inner_channels |-> b.inner_channels,
     main_path |-> b.main_layers, shortcut_path |-> b.short_layers]

\* The constructor of a block built on its own returns.
Block_Done ==
    /\ pc = "rb_ret"
    /\ cls \in {"ResidualBlock", "ResidualBottleneckBlock"}
    /\ pc' = "done"
    /\ UNCHANGED <<cls, self, err, layers, conv_out_h, conv_out_w, pool_count,
                   blk, rng, rng_state, x, n_features>>

\* ---------------------------------------- ResNet._make_feature_extractor
\* Line 333.
AllChannels(net) == <<net.in_size[1]>> \o net.channels
\* Line 335.
PoolsNum(net) == Len(net.channels) \div net.pool_every

\* Lines 337-353: the block built for the full group i (0-based).
GroupBlock(net, i) ==
    LET all_channels == AllChannels(net)
        P == net.pool_every
    IN  IF PyAt(all_channels, i * P) # PyAt(all_channels, P * (i + 1))
           \/ ~net.bottleneck
        THEN BlockFrame("ResidualBlock",
                 PyAt(all_channels, i * P),
                 PySlice(all_channels, i * P + 1, (i + 1) * P + 1),
                 PyRepeat(3, P),
                 net.batchnorm, net.dropout, net.activation_type, "res_pool")
        ELSE BlockFrame("ResidualBottleneckBlock",
                 PyAt(all_channels, i * P),
                 PySlice(all_channels, i * P + 2, (i + 1) * P),
                 PyRepeat(3, P - 2),
                 net.batchnorm, net.dropout, net.activation_type, "res_pool")

\* Lines 358-374: the block built for the trailing `length` channels.
RemainderBlock(net, length) ==
    LET all_channels == AllChannels(net)
        P == net.pool_every
    IN  IF PyAt(all_channels, -length - 1) # PyAt(all_channels, -1)
           \/ ~net.bottleneck
        THEN BlockFrame("ResidualBlock",
                 PyAt(all_channels, -length - 1),
                 PySlice(all_channels, -length, Len(all_channels)),
                 PyRepeat(3, length),
                 net.batchnorm, net.dropout, net.activation_type, "res_dims")
        ELSE BlockFrame("ResidualBottleneckBlock",
                 PyAt(all_channels, -length - 1),
                 PySlice(all_channels, -length, -1),
                 PyRepeat(3, P - 2),
                 net.batchnorm, net.dropout, net.activation_type, "res_dims")

\* Lines 317-335.
ResNet_FE_Begin ==
    /\ pc = "make_fe"
    /\ cls = "ResNet"
    /\ layers' = <<>>
    /\ pool_count' = 0
    /\ pc' = "res_loop"
    /\ UNCHANGED <<cls, self, err, conv_out_h, conv_out_w, blk, rng,
                   rng_state, x, n_features>>

\* Lines 336-353: the constructor of the block of group i is entered.
ResNet_Group ==
    /\ pc = "res_loop"
    /\ pool_count < PoolsNum(self)
    /\ blk' = GroupBlock(self, pool_count)
    /\ pc' = BlockStart(blk'.cls)
    /\ UNCHANGED <<cls, self, err, layers, conv_out_h, conv_out_w, pool_count,
                   rng, rng_state, x, n_features>>

\* `layers += [block]`: the block constructor returned to the ResNet.
ResNet_AppendBlock ==
    /\ pc = "rb_ret"
    /\ cls = "ResNet"
    /\ layers' = Append(layers, BlockLayer(blk))
    /\ blk' = NoBlk
    /\ pc' = blk.ret
    /\ UNCHANGED <<cls, self, err, conv_out_h, conv_out_w, pool_count, rng,
                   rng_state, x, n_features>>

\* Line 355: the pooling layer after the block of a full group.
ResNet_Pool ==
    /\ pc = "res_pool"
    /\ layers' = Append(layers, Pool(self.pooling_type,
                                     self.pooling_params.kernel_size))
    /\ pool_count' = pool_count + 1
    /\ pc' = "res_loop"
    /\ UNCHANGED <<cls, self, err, conv_out_h, conv_out_w, blk, rng,
                   rng_state, x, n_features>>

\* Lines 356-374: the trailing group of len(channels) % pool_every channels.
ResNet_Remainder ==
    /\ pc = "res_loop"
    /\ pool_count = PoolsNum(self)
    /\ LET length == Len(self.channels) % self.pool_every
       IN  IF length > 0
           THEN /\ blk' = RemainderBlock(self, length)
                /\ pc' = BlockStart(blk'.cls)
           ELSE /\ blk' = blk
                /\ pc' = "res_dims"
    /\ UNCHANGED <<cls, self, err, layers, conv_out_h, conv_out_w, pool_count,
                   rng, rng_state, x, n_features>>

\* Lines 376-377: the dimension recorded by the ResNet.
ResNetOutDim(dim, pooling_params, pools_num) ==
    dim \div Pow(pooling_params.kernel_size, pools_num)

\* Lines 376-382.
ResNet_Dims ==
    /\ pc = "res_dims"
    /\ conv_out_w' = ResNetOutDim(self.in_size[3], self.pooling_params,
                                  PoolsNum(self))
    /\ conv_out_h' = ResNetOutDim(self.in_size[2], self.pooling_params,
                                  PoolsNum(self))
    /\ pc' = "make_mlp"
    /\ UNCHANGED <<cls, self, err, layers, pool_count, blk, rng, rng_state,
                   x, n_features>>

\* ------------------------------------------------------- CNN._n_features
\* Number of Dropout2d layers of a main path: each draws a mask from the
\* global generator when the block runs in training mode.
RECURSIVE DropoutCount(_)
DropoutCount(path) ==
    IF path = <<>> THEN 0
    ELSE (IF Head(path).kind = "dropout" THEN 1 ELSE 0)
         + DropoutCount(Tail(path))

\* Line 115: what one layer of the feature extractor does to a tensor of
\* shape (1, t.c, t.h, t.w): the new shape, whether the layer raises, and
\* how many times it draws from the global generator.
Forward(layer, t) ==
    CASE layer.kind = "conv" ->
           LET k == layer.kernel_size
               p == layer.padding
               s == layer.stride
           IN  [ok |-> t.c = layer.cin /\ t.h + 2 * p >= k /\ t.w + 2 * p >= k,
                c |-> layer.cout,
                h |-> (t.h + 2 * p - k) \div s + 1,
                w |-> (t.w + 2 * p - k) \div s + 1,
                draws |-> 0]
      [] layer.kind = "pool" ->
           LET k == layer.kernel_size
           IN  [ok |-> t.h >= k /\ t.w >= k,
                c |-> t.c,
                h |-> (t.h - k) \div k + 1,
                w |-> (t.w - k) \div k + 1,
                draws |-> 0]
      [] layer.kind = "block" ->
           [ok |-> t.c = layer.in_channels,
            c |-> layer.channels[Len(layer.channels)],
            h |-> t.h, w |-> t.w,
            draws |-> IF t.c = layer.in_channels
                      THEN DropoutCount(layer.main_path) ELSE 0]
      [] OTHER -> [ok |-> TRUE, c |-> t.c, h |-> t.h, w |-> t.w, draws |-> 0]

\* SetRngState that leaves the generator as the probe left it.
SetRngState_Skipped(saved, current) == current

\* Line 120: torch.set_rng_state(rng_state).
SetRngState(saved, current) == saved

\* Lines 131 and 112: _make_mlp calls _n_features, which saves the state.
NFeatures_Enter ==
    /\ pc = "make_mlp"
    /\ rng_state' = rng
    /\ x' = [c |-> self.in_size[1], h |-> self.in_size[2],
             w |-> self.in_size[3], i |-> 0]
    /\ pc' = "probe"
    /\ UNCHANGED <<cls, self, err, layers, conv_out_h, conv_out_w, pool_count,
                   blk, rng, n_features>>

\* Line 115: the zero tensor passes through the next layer, which may raise.
Probe_Forward ==
    /\ pc = "probe"
    /\ x.i < Len(layers)
    /\ LET r == Forward(layers[x.i + 1], x)
       IN  /\ rng' = Draw(rng, r.draws)
           /\ IF r.ok
              THEN /\ x' = [c |-> r.c, h |-> r.h, w |-> r.w, i |-> x.i + 1]
                   /\ pc' = "probe"
              ELSE /\ x' = x
                   /\ pc' = "probe_raise"
    /\ UNCHANGED <<cls, self, err, layers, conv_out_h, conv_out_w, pool_count,
                   blk, rng_state, n_features>>

\* Lines 116 and 119-120: numel is returned through the finally clause.
NFeatures_Return ==
    /\ pc = "probe"
    /\ x.i = Len(layers)
    /\ n_features' = x.c * x.h * x.w
    /\ rng' = SetRngState(rng_state, rng)
    /\ pc' = "mlp"
    /\ UNCHANGED <<cls, self, err, layers, conv_out_h, conv_out_w, pool_count,
                   blk, rng_state, x>>

\* Lines 119-120: the exception of the forward pass leaves through the
\* finally clause and ends the construction.
NFeatures_Raise ==
    /\ pc = "probe_raise"
    /\ rng' = SetRngState(rng_state, rng)
    /\ Raise("RuntimeError")
    /\ UNCHANGED <<cls, self, layers, conv_out_h, conv_out_w, pool_count,
                   blk, rng_state, x, n_features>>

\* Lines 132-140 and 69: the MLP is built on n_features inputs; each of its
\* len(hidden_dims) + 1 linear layers draws its weights.
Make_Mlp ==
    /\ pc = "mlp"
    /\ rng' = Draw(rng, Len(self.hidden_dims) + 1)
    /\ pc' = "done"
    /\ UNCHANGED <<cls, self, err, layers, conv_out_h, conv_out_w, pool_count,
                   blk, rng_state, x, n_features>>

Next ==
    \/ CNN_Init
    \/ CNN_FE_Begin
    \/ CNN_Conv
    \/ CNN_Pool
    \/ CNN_FE_Return
    \/ RBB_Init
    \/ RB_Init
    \/ RB_MainStep
    \/ RB_Shortcut
    \/ Block_Done
    \/ ResNet_FE_Begin
    \/ ResNet_Group
    \/ ResNet_AppendBlock
    \/ ResNet_Pool
    \/ ResNet_Remainder
    \/ ResNet_Dims
    \/ NFeatures_Enter
    \/ Probe_Forward
    \/ NFeatures_Return
    \/ NFeatures_Raise
    \/ Make_Mlp

Spec == Init /\ [][Next]_vars

\* The construction of a plain CNN alone.
NextCNN ==
    \/ CNN_Init
    \/ CNN_FE_Begin
    \/ CNN_Conv
    \/ CNN_Pool
    \/ CNN_FE_Return
    \/ NFeatures_Enter
    \/ Probe_Forward
    \/ NFeatures_Return
    \/ NFeatures_Raise
    \/ Make_Mlp

SpecCNN == InitCNN /\ [][NextCNN]_vars

\* The construction of a ResNet alone.
NextResNet ==
    \/ CNN_Init
    \/ ResNet_FE_Begin
    \/ ResNet_Group
    \/ RBB_Init
    \/ RB_Init
    \/ RB_MainStep
    \/ RB_Shortcut
    \/ ResNet_AppendBlock
    \/ ResNet_Pool
    \/ ResNet_Remainder
    \/ ResNet_Dims
    \/ NFeatures_Enter
    \/ Probe_Forward
    \/ NFeatures_Return
    \/ NFeatures_Raise
    \/ Make_Mlp

SpecResNet == InitResNet /\ [][NextResNet]_vars

\* The construction of a residual block on its own.
NextBlock ==
    \/ RBB_Init
    \/ RB_Init
    \/ RB_MainStep
    \/ RB_Shortcut
    \/ Block_Done

SpecBlock == InitBlock /\ [][NextBlock]_vars

\* ================================================================ claims
\* The feature extractor has been returned to the constructor.
FEBuilt ==
    \/ pc \in {"make_mlp", "probe", "probe_raise", "mlp", "done"}
    \/ pc = "error" /\ err = "RuntimeError"

KindCount(path, kind) ==
    Cardinality({k \in 1..Len(path) : path[k].kind = kind})

\* Position in the plain pipeline of the j-th convolution: two layers for
\* each earlier convolution and one for each earlier pool.
ConvPos(j, P) == 2 * (j - 1) + (j - 1) \div P + 1

\* C3: the plain CNN feature extractor is, for j = 1..N in order, the
\* convolution c_{j-1} -> c_j immediately followed by the activation, with a
\* pooling layer right after the j-th activation exactly when j mod P = 0:
\* N convolutions, N activations, floor(N/P) pools, and no pool after the
\* last N mod P conv+activation stages.
C3_PlainPipeline ==
    (cls = "CNN" /\ FEBuilt) =>
        LET N == Len(self.channels)
            P == self.pool_every
            c(j) == IF j = 0 THEN self.in_size[1] ELSE self.channels[j]
        IN  /\ Len(layers) = 2 * N + N \div P
            /\ KindCount(layers, "conv") = N
            /\ KindCount(layers, "act") = N
            /\ KindCount(layers, "pool") = N \div P
            /\ \A j \in 1..N :
                 LET at == ConvPos(j, P)
                 IN  /\ layers[at].kind = "conv"
                     /\ layers[at].cin = c(j - 1)
                     /\ layers[at].cout = c(j)
                     /\ layers[at + 1] = Activation(self.activation_type)
                     /\ IF j % P = 0
                        THEN layers[at + 2].kind = "pool"
                        ELSE \/ at + 1 = Len(layers)
                             \/ layers[at + 2].kind = "conv"

\* A CNN was built whose pipeline has a pooled group and a trailing
\* conv+activation stage without a pool.
C3_Witness ==
    /\ cls = "CNN"
    /\ pc = "done"
    /\ Len(self.channels) = 3
    /\ self.pool_every = 2
    /\ Len(layers) = 7

\* The dimension the claim prescribes after the stages of `path`, applied
\* stage by stage in pipeline order.
RECURSIVE StageByStage(_, _)
StageByStage(path, dim) ==
    IF path = <<>> THEN dim
    ELSE LET l == Head(path)
             next == CASE l.kind = "conv" ->
                            (dim - l.kernel_size + 2 * l.padding) \div l.stride
                       [] l.kind = "pool" -> dim \div l.kernel_size
                       [] OTHER -> dim
         IN  StageByStage(Tail(path), next)

\* C9: throughout the construction of the plain CNN, the recorded conv_out_h
\* and conv_out_w are the input height and width taken through
\* floor((dim - kernel_size + 2*padding) / stride) for every convolution and
\* floor(dim / pool_kernel_size) for every pool built so far, in pipeline
\* order.
C9_StageByStageDims ==
    (cls = "CNN" /\ (pc \in {"cnn_loop", "cnn_pool"} \/ FEBuilt)) =>
        /\ conv_out_h = StageByStage(layers, self.in_size[2])
        /\ conv_out_w = StageByStage(layers, self.in_size[3])

\* The feature extractor of a CNN was built with convolutions that change
\* the dimension, a pool between them, and a recorded height that a single compounded division
\* of the input height would not give.
C9_Witness ==
    /\ cls = "CNN"
    /\ pc = "make_mlp"
    /\ Len(self.channels) = 3
    /\ self.pool_every = 2
    /\ self.conv_params.kernel_size = 3
    /\ self.conv_params.padding = 0
    /\ self.conv_params.stride = 2
    /\ self.pooling_params.kernel_size = 2
    /\ self.in_size[2] = 2
    /\ self.in_size[3] = 1
    /\ conv_out_h = -2
    /\ conv_out_w = -2

\* Number of layers with learned parameters instantiated for `path`, the
\* convolutions inside residual blocks included.
RECURSIVE ParamLayers(_)
ParamLayers(path) ==
    IF path = <<>> THEN 0
    ELSE LET l == Head(path)
         IN  (CASE l.kind = "conv" -> 1
                [] l.kind = "block" ->
                     KindCount(l.main_path, "conv")
                     + KindCount(l.shortcut_path, "conv")
                [] OTHER -> 0)
             + ParamLayers(Tail(path))

\* C10: right after _n_features has returned or raised, the global generator
\* state is the state the construction of the feature extractor had left
\* before the call (one advance per layer with learned parameters), which
\* is also the state saved on entry.
C10_RngRestored ==
    (pc = "mlp" \/ (pc = "error" /\ err = "RuntimeError")) =>
        /\ rng = ParamLayers(layers) % RngMod
        /\ rng = rng_state

\* The probe raised in a pooling layer after a residual block with dropout
\* had drawn from the generator.
C10_Witness ==
    /\ pc = "error"
    /\ err = "RuntimeError"
    /\ x.i >= 1
    /\ layers[x.i].kind = "block"
    /\ DropoutCount(layers[x.i].main_path) = 1
    /\ layers[x.i + 1].kind = "pool"

\* The main path of the block under construction is complete.
MainPathBuilt == blk.cls # "none" /\ pc \in {"rb_short", "rb_ret", "done"}
\* Both paths of the block under construction are complete.
BlockBuilt == blk.cls # "none" /\ pc \in {"rb_ret", "done"}

\* C5: the main path of a residual block with L channels holds exactly L
\* convolutions in order (in_channels -> channels[0] -> ... ->
\* channels[L-1], kernel kernel_sizes[i], same-size padding, bias); each of
\* the first L-1 is followed by dropout (iff dropout > 0), then
\* normalization (iff batchnorm), then the activation; the last convolution
\* is the last element of the main path.
C5_MainPath ==
    MainPathBuilt =>
        LET L == Len(blk.channels)
            c(j) == IF j = 0 THEN blk.in_channels ELSE blk.channels[j]
            d == IF blk.dropout > 0 THEN 1 ELSE 0
            n == IF blk.batchnorm THEN 1 ELSE 0
            per == 1 + d + n + 1
            main == blk.main_layers
        IN  /\ Len(main) = (L - 1) * per + 1
            /\ KindCount(main, "conv") = L
            /\ KindCount(main, "dropout") = (L - 1) * d
            /\ KindCount(main, "batchnorm") = (L - 1) * n
            /\ KindCount(main, "act") = L - 1
            /\ main[Len(main)].kind = "conv"
            /\ \A j \in 1..L :
                 LET at == (j - 1) * per + 1
                 IN  /\ main[at] = Conv2d(c(j - 1), c(j), blk.kernel_sizes[j],
                                          1, "same", TRUE)
                     /\ j < L =>
                          /\ d = 1 => main[at + 1] = Dropout2d(blk.dropout)
                          /\ n = 1 => main[at + d + 1].kind = "batchnorm"
                          /\ main[at + d + n + 1]
                               = Activation(blk.activation_type)

\* A residual block of three convolutions was built with both dropout and
\* normalization.
C5_Witness ==
    /\ cls = "ResidualBlock"
    /\ pc = "done"
    /\ Len(blk.channels) = 3
    /\ blk.dropout > 0
    /\ blk.batchnorm
    /\ Len(blk.main_layers) = 9

\* The main path ResidualBlock builds for the frame b, iterations i.. .
RECURSIVE ResidualBlockMain(_, _)
ResidualBlockMain(b, i) ==
    IF i >= Len(b.kernel_sizes) THEN <<>>
    ELSE MainLayersAt(b, i) \o ResidualBlockMain(b, i + 1)

\* C6: ResidualBottleneckBlock(C, [c1..ck], [k1..kk]) with k >= 1 ends as
\* ResidualBlock(in_channels = C, channels = [c1, c1, ..., ck, C],
\* kernel_sizes = [1, k1, ..., kk, 1]) with the same options does: the same
\* exception if that one raises, and else the same main path and shortcut
\* path, of k + 2 convolutions whose first and last have kernel size 1.
C6_BottleneckReconstruction ==
    (/\ blk.cls = "ResidualBottleneckBlock"
     /\ Len(blk.inner_channels) >= 1
     /\ Len(blk.inner_channels) = Len(blk.inner_kernel_sizes)
     /\ pc \in {"rb_ret", "done", "error"}) =>
        LET C == blk.in_out_channels
            k == Len(blk.inner_channels)
            chans == <<blk.inner_channels[1]>> \o blk.inner_channels \o <<C>>
            kerns == <<1>> \o blk.inner_kernel_sizes \o <<1>>
            plain == BlockFrame("ResidualBlock", C, chans, kerns,
                                blk.batchnorm, blk.dropout,
                                blk.activation_type, blk.ret)
            e == RBInitError(chans, kerns, blk.activation_type)
        IN  IF e # "none"
            THEN pc = "error" /\ err = e /\ blk.main_layers = <<>>
            ELSE /\ pc # "error"
                 /\ blk.main_layers = ResidualBlockMain(plain, 0)
                 /\ blk.short_layers = <<Identity>>
                 /\ KindCount(blk.main_layers, "conv") = k + 2
                 /\ blk.main_layers[1].kernel_size = 1
                 /\ blk.main_layers[Len(blk.main_layers)].kernel_size = 1

\* A bottleneck block with two inner convolutions of different channel
\* counts was built.
C6_Witness ==
    /\ cls = "ResidualBottleneckBlock"
    /\ pc = "done"
    /\ Len(blk.inner_channels) = 2
    /\ blk.inner_channels[1] # blk.inner_channels[2]
    /\ blk.inner_channels[1] # blk.in_out_channels
    /\ KindCount(blk.main_layers, "conv") = 4

\* C7: the shortcut path of a residual block is a single identity when
\* in_channels equals channels[-1], and else exactly one 1x1 convolution
\* without bias from in_channels to channels[-1]; it never holds another
\* layer.
C7_Shortcut ==
    BlockBuilt =>
        LET last == blk.channels[Len(blk.channels)]
            short == blk.short_layers
        IN  /\ Len(short) = 1
            /\ IF blk.in_channels = last
               THEN short[1].kind = "identity"
               ELSE /\ short[1].kind = "conv"
                    /\ short[1].cin = blk.in_channels
                    /\ short[1].cout = last
                    /\ short[1].kernel_size = 1
                    /\ short[1].bias = FALSE

\* A residual block was built whose input and output channel counts are
\* equal, so that its shortcut is the identity.
C7_Witness ==
    /\ cls = "ResidualBlock"
    /\ pc = "done"
    /\ Len(blk.channels) = 2
    /\ blk.in_channels = blk.channels[2]
    /\ blk.in_channels # blk.channels[1]
    /\ blk.short_layers = <<Identity>>

\* C1: for a full group of P = pool_every convolutions a bottleneck block is
\* built only when bottleneck mode is on, the group's input channel count
\* equals its last output channel count and P >= 3, its inner channels being
\* the group's channel entries without the first two and the last; in every
\* other case a plain ResidualBlock is built, and the construction of the
\* group's block raises no error.
C1_FullGroupBottleneck ==
    (cls = "ResNet" /\ blk.cls # "none" /\ blk.ret = "res_pool") =>
        LET all_channels == <<self.in_size[1]>> \o self.channels
            P == self.pool_every
            first == pool_count * P + 1
            last == first + P
            roundTrip == all_channels[first] = all_channels[last]
            wanted == self.bottleneck /\ roundTrip /\ P >= 3
        IN  /\ (blk.cls = "ResidualBottleneckBlock") <=> wanted
            /\ wanted => blk.inner_channels
                            = SubSeq(all_channels, first + 2, last - 1)
            /\ pc # "error"

\* C2: for the trailing group of r = N mod P > 0 convolutions a bottleneck
\* block is built when bottleneck mode is on, the remainder's input channel
\* count equals its last output channel count and r >= 3 (inner channels the
\* remainder's channel entries without the first two and the last, as many
\* inner kernel sizes, r convolutions in all) and a plain ResidualBlock
\* otherwise; the construction of the remainder's block raises no error.
C2_RemainderBottleneck ==
    (cls = "ResNet" /\ blk.cls # "none" /\ blk.ret = "res_dims") =>
        LET all_channels == <<self.in_size[1]>> \o self.channels
            r == Len(self.channels) % self.pool_every
            last == Len(all_channels)
            first == last - r
            roundTrip == all_channels[first] = all_channels[last]
            wanted == self.bottleneck /\ roundTrip /\ r >= 3
        IN  /\ (blk.cls = "ResidualBottleneckBlock") <=> wanted
            /\ wanted =>
                 /\ blk.inner_channels
                      = SubSeq(all_channels, first + 2, last - 1)
                 /\ Len(blk.inner_kernel_sizes) = Len(blk.inner_channels)
            /\ pc = "rb_ret" => KindCount(blk.main_layers, "conv") = r
            /\ pc # "error"

\* The residual block `b` of a pipeline takes all_channels[from] channels
\* and covers the entries all_channels[from + 1 .. to] (0-based): one
\* convolution for each, ending on all_channels[to] channels.
CoversGroup(b, all_channels, from, to) ==
    /\ b.kind = "block"
    /\ b.in_channels = all_channels[from + 1]
    /\ KindCount(b.main_path, "conv") = to - from
    /\ b.channels[Len(b.channels)] = all_channels[to + 1]

\* C4: the ResNet pipeline is built, and consists of floor(N/P) residual
\* blocks, the i-th taking all_channels[i*P] channels and covering the
\* entries all_channels[i*P+1 .. (i+1)*P], each immediately followed by one
\* pooling layer, then one more residual block covering the last N mod P
\* entries if and only if N mod P > 0, with no pool after it.
C4_StageGrouping ==
    cls = "ResNet" =>
        LET all_channels == <<self.in_size[1]>> \o self.channels
            N == Len(self.channels)
            P == self.pool_every
            G == N \div P
            r == N % P
        IN  /\ ~(pc = "error" /\ blk.cls # "none")
            /\ (pc = "res_dims" \/ FEBuilt) =>
                 /\ Len(layers) = 2 * G + (IF r > 0 THEN 1 ELSE 0)
                 /\ KindCount(layers, "block") = G + (IF r > 0 THEN 1 ELSE 0)
                 /\ KindCount(layers, "pool") = G
                 /\ \A i \in 0..(G - 1) :
                      /\ CoversGroup(layers[2 * i + 1], all_channels,
                                     i * P, (i + 1) * P)
                      /\ layers[2 * i + 2].kind = "pool"
                 /\ r > 0 => CoversGroup(layers[2 * G + 1], all_channels,
                                         N - r, N)

\* C8: a construction that fails with a configuration error (an assert of
\* a constructor or the ValueError of an unsupported kind) has instantiated
\* no layer: no layer of a feature extractor, and no layer of the main or
\* shortcut path of a residual block.
C8_FailFast ==
    (pc = "error" /\ err \in {"AssertionError", "ValueError"}) =>
        /\ layers = <<>>
        /\ blk.cls # "none" =>
             blk.main_layers = <<>> /\ blk.short_layers = <<>>

\* C11: once the probe of a plain CNN has returned, the recorded conv_out_h
\* and conv_out_w are the height and width of the tensor the feature
\* extractor produced for an input of the configured size, and the feature
\* count returned by _n_features is channels[-1] * conv_out_h * conv_out_w.
C11_RecordedDimsAreReal ==
    (cls = "CNN" /\ pc \in {"mlp", "done"}) =>
        /\ conv_out_h = x.h
        /\ conv_out_w = x.w
        /\ n_features = self.channels[Len(self.channels)]
                          * conv_out_h * conv_out_w
====
